---- MODULE Spec2Model ----
(***************************************************************************)
(* A model of displayio_scrollbox.ScrollBox: a fixed-size canvas showing a *)
(* window of wrapped text lines laid out in virtual rows, scrolled by      *)
(* shifting the canvas in place and repainting the lines that meet the     *)
(* dirty region.                                                           *)
(*                                                                         *)
(* The canvas is modelled by its rows: every blit and fill of the source   *)
(* covers whole rows of the text column, so one cell per row records what  *)
(* that row shows (background, or row k of one line's bitmap).  Lengths    *)
(* are scaled down (a canvas of Height rows, fonts of 3 and 4 rows).       *)
(* Optional values (None in the source) are <<>> and <<v>>.                *)
(***************************************************************************)
EXTENDS Integers, Sequences, FiniteSets, TLC

\* ------------------------------------------------------------ bounds

\* rows of the canvas (the height parameter)
Height == 3
\* pixel columns of the canvas (the width parameter); a glyph is one wide
Width == 2
\* longest animation, in clock ticks
MaxTime == 3

\* ------------------------------------------------------------ values

None == <<>>

Some(v) == <<v>>

Val(o) == o[1]

Abs(n) == IF n < 0 THEN -n ELSE n

Min2(a, b) == IF a <= b THEN a ELSE b

Max2(a, b) == IF a >= b THEN a ELSE b

Min3(a, b, c) == Min2(a, Min2(b, c))

Max3(a, b, c) == Max2(a, Max2(b, c))

\* Python's round(n / d) for d > 0: to the nearest integer, a tie to the even one
Round(n, d) ==
    LET q == n \div d
        r == n % d
    IN  IF 2 * r < d THEN q
        ELSE IF 2 * r > d THEN q + 1
        ELSE IF q % 2 = 0 THEN q ELSE q + 1

\* ------------------------------------------------------------ collaborators

\* The fonts: a BuiltinFont has a glyph sheet of bitmap.height rows, any other
\* font an ascent and a descent.  rise and drop are the rows a rendered line
\* takes above and below its baseline.
TERM == [name |-> "TERM", builtin |-> TRUE, bitmap_height |-> 3,
         ascent |-> 0, descent |-> 0, rise |-> 2, drop |-> 0]

BDF == [name |-> "BDF", builtin |-> FALSE, bitmap_height |-> 0,
        ascent |-> 3, descent |-> 1, rise |-> 3, drop |-> 1]

Fonts == {TERM, BDF}

\* The texts, each the lengths of its paragraphs (the pieces between "\n")
TextNames == {"A", "B"}

Paragraphs(text) == IF text = "A" THEN <<1, 0, 2>> ELSE <<3>>

\* The pieces of one paragraph of n glyphs left from offset o on, at most maxc
\* glyphs each; a piece is <<text, paragraph, offset, length>>
RECURSIVE WrapParagraph(_, _, _, _, _)
WrapParagraph(text, p, o, n, maxc) ==
    IF n <= maxc THEN << <<text, p, o, n>> >>
    ELSE << <<text, p, o, maxc>> >> \o WrapParagraph(text, p, o + maxc, n - maxc, maxc)

RECURSIVE WrapFrom(_, _, _)
WrapFrom(text, p, maxc) ==
    IF p > Len(Paragraphs(text)) THEN << >>
    ELSE WrapParagraph(text, p, 0, Paragraphs(text)[p], maxc) \o WrapFrom(text, p + 1, maxc)

\* wrap_text_to_pixels(text, max_width, font): the lines of the text, an empty
\* paragraph giving one empty line
wrap_text_to_pixels(text, max_width, font) == WrapFrom(text, 1, Max2(1, max_width))

\* bitmap_label.Label(text, font, base_alignment, background_tight): the bitmap
\* (None for a line without glyphs) and bounding_box[1], the offset of the
\* bitmap's top from the baseline
Label(text, font) ==
    IF text[4] = 0
    THEN [bitmap |-> None, bounding_box_y |-> 0]
    ELSE [bitmap |-> Some([text |-> text, font |-> font.name,
                           height |-> font.rise + font.drop]),
          bounding_box_y |-> -font.rise]

\* ------------------------------------------------------------ raster

Rows == 0 .. (Height - 1)

Background == <<>>

\* row k of a line bitmap
Pixel(bm, k) == <<bm.text, bm.font, k>>

\* displayio.Bitmap(width, height, 2): every pixel 0
NewBitmap == [y \in Rows |-> Background]

\* a mutant of bitmap_fill_region: row yend is filled too
FillRegionInclusive(bitmap, ystart, yend) ==
    [y \in Rows |-> IF ystart <= y /\ y <= yend THEN Background ELSE bitmap[y]]

\* bitmaptools.fill_region(bitmap, x1, y1, x2, y2, value) with value 0, on
\* the rows y1 .. y2 - 1
bitmap_fill_region(bitmap, ystart, yend) ==
    [y \in Rows |-> IF ystart <= y /\ y < yend THEN Background ELSE bitmap[y]]

\* Bitmap.blit(0, y, self, y1 = y1): the canvas copied onto itself, source
\* rows y1 .. Height - 1 landing at row y on (rows off the canvas are cut)
BlitSelf(bitmap, y, y1) ==
    [r \in Rows |-> IF r >= y /\ (r - y) + y1 < Height THEN bitmap[(r - y) + y1]
                    ELSE bitmap[r]]

\* Bitmap.blit(x, y, source, y1 = y1, y2 = y2, skip_index = None): rows
\* y1 .. y2 - 1 of a line bitmap copied to row y on; a reversed pair y1 > y2
\* is put in order by the blit, and rows off the canvas are cut
BlitLine(bitmap, y, bm, y1, y2) ==
    LET lo == Min2(y1, y2)
        hi == Max2(y1, y2)
    IN  [r \in Rows |-> IF r >= y /\ (r - y) + lo < hi THEN Pixel(bm, (r - y) + lo)
                        ELSE bitmap[r]]

\* Bitmap.blit raises ValueError for a target row outside 0 .. height
BlitOutOfRange(y) == y < 0 \/ y > Height

\* ------------------------------------------------------------ layout

FontOf(name) == CHOOSE f \in Fonts : f.name = name

\* the line height __init__ multiplies by line_spacing
LineHeight(font) ==
    IF font.builtin THEN font.bitmap_height ELSE font.ascent + font.descent

\* _line_spacing_pixels as __init__ sets it, line_spacing being num / den
LineSpacingPixels(font, num, den) == Round(LineHeight(font) * num, den)

\* _TextData(text, font, row)
TextData(text, font, row) ==
    LET ascent == IF font.builtin THEN font.bitmap_height ELSE font.ascent
        descent == IF font.builtin THEN 0 ELSE font.descent
    IN  [text |-> text, font |-> font.name, top |-> row,
         anchor |-> row + ascent, bottom |-> row + ascent + descent,
         bitmap |-> None, bitmap_anchor_offset |-> None]

\* a mutant of MakeLines: a line without glyphs takes no rows
RECURSIVE MakeLinesBlankFlat(_, _, _, _, _)
MakeLinesBlankFlat(lines, i, font, row_count, spacing) ==
    IF i > Len(lines) THEN << >>
    ELSE << TextData(lines[i], font, row_count) >>
         \o MakeLinesBlankFlat(lines, i + 1, font,
                               IF lines[i][4] = 0 THEN row_count ELSE row_count + spacing,
                               spacing)

\* the loop of _make_text_list over the wrapped lines from line i on
RECURSIVE MakeLines(_, _, _, _, _)
MakeLines(lines, i, font, row_count, spacing) ==
    IF i > Len(lines) THEN << >>
    ELSE << TextData(lines[i], font, row_count) >>
         \o MakeLines(lines, i + 1, font, row_count + spacing, spacing)

\* _make_text_list: the new text_list and max_row (the dirty rows are reset by ResetDirtyRows
\* and the canvas is cleared by ClearedCanvas where the model calls this)
MakeTextList(text, font, row_start, xoff, spacing) ==
    LET lines == wrap_text_to_pixels(text, Width - xoff, font)
    IN  [text_list |-> MakeLines(lines, 1, font, row_start, spacing),
         max_row |-> row_start + Len(lines) * spacing]

\* a mutant of ClearedCanvas: the canvas is left as it was
ClearedCanvasKept(bm) == bm

\* bitmap_fill_region(self.bitmap) of _make_text_list: the canvas cleared
ClearedCanvas(bm) == bitmap_fill_region(bm, 0, Height)

\* a mutant of ResetDirtyRows: the two bounds are set the wrong way round
ResetDirtyRowsSwapped == << Some(Height), Some(0) >>

\* _reset_dirty_rows
ResetDirtyRows == << Some(0), Some(Height) >>

\* a mutant of NoDirtyRows: the dirty rows are reset to the whole canvas
NoDirtyRowsReset == << Some(0), Some(Height) >>

\* the dirty rows after a move has been drawn
NoDirtyRows == << None, None >>

\* ------------------------------------------------------------ line cache

\* a read of _TextData.bitmap makes a Label of the line: _bitmap is None
Rasterizes(item) == item.bitmap = None

\* _TextData.bitmap: the line after its bitmap has been read, rasterized
\* when none is cached
BitmapGet(item) ==
    IF Rasterizes(item)
    THEN LET temp_label == Label(item.text, FontOf(item.font))
         IN  [item EXCEPT !.bitmap = temp_label.bitmap,
                          !.bitmap_anchor_offset = Some(temp_label.bounding_box_y)]
    ELSE item

\* _TextData.clear_bitmap
ClearBitmapOf(item) == [item EXCEPT !.bitmap = None, !.bitmap_anchor_offset = None]

\* ------------------------------------------------------------ compositor

\* a mutant of Clamp: the upper limit is forgotten
ClampNoUpper(new_row, maxrow) == IF new_row < 0 THEN 0 ELSE new_row

\* the row limits of _scroll_and_draw
Clamp(new_row, maxrow) ==
    LET r == IF new_row < 0 THEN 0 ELSE new_row
    IN  IF r > maxrow THEN maxrow ELSE r

\* a mutant of ShiftCanvas: the band the shift exposes is not filled
ShiftCanvasNoFill(bm, scroll_rows) ==
    IF Abs(scroll_rows) > Height THEN bitmap_fill_region(bm, 0, Height)
    ELSE IF scroll_rows > 0 THEN BlitSelf(bm, scroll_rows, 0)
    ELSE IF scroll_rows < 0 THEN BlitSelf(bm, 0, -scroll_rows)
    ELSE bm

\* the shift of the canvas by scroll_rows = current_row - new_row
ShiftCanvas(bm, scroll_rows) ==
    IF Abs(scroll_rows) > Height THEN bitmap_fill_region(bm, 0, Height)
    ELSE IF scroll_rows > 0
         THEN bitmap_fill_region(BlitSelf(bm, scroll_rows, 0), 0, scroll_rows)
    ELSE IF scroll_rows < 0
         THEN bitmap_fill_region(BlitSelf(bm, 0, -scroll_rows),
                                 Height + scroll_rows, Height)
    ELSE bm

\* a mutant of StartLine: the search compares the top of a line, not its
\* bottom, and so passes over a line that begins above the dirty rows
StartLineByTop(tl, dirty_min) ==
    IF \E i \in 1 .. Len(tl) : tl[i].top >= dirty_min
    THEN CHOOSE i \in 1 .. Len(tl) :
            /\ tl[i].top >= dirty_min
            /\ \A j \in 1 .. (i - 1) : tl[j].top < dirty_min
    ELSE 1

\* the first line whose bottom reaches the dirty rows (the first line when
\* there is none)
StartLine(tl, dirty_min) ==
    IF \E i \in 1 .. Len(tl) : tl[i].bottom >= dirty_min
    THEN CHOOSE i \in 1 .. Len(tl) :
            /\ tl[i].bottom >= dirty_min
            /\ \A j \in 1 .. (i - 1) : tl[j].bottom < dirty_min
    ELSE 1

\* the rows of one line to copy, for a line whose bitmap has been read and
\* is not None: the rows to blit, the target row, the source rows, and
\* whether the blit is issued
LineSpan(item, dirty_min, dirty_max, row) ==
    LET line_bitmap == Val(item.bitmap)
        anchor_offset == Val(item.bitmap_anchor_offset)
        min_row_to_blit == Max3(dirty_min, item.anchor + anchor_offset, row)
        max_row_to_blit == Min3(dirty_max,
                                item.anchor + line_bitmap.height + anchor_offset,
                                row + Height)
        bitmap_y_source1 == min_row_to_blit - item.anchor - anchor_offset
        bitmap_y_source2 == max_row_to_blit - item.anchor - anchor_offset
    IN  [min_row_to_blit |-> min_row_to_blit,
         max_row_to_blit |-> max_row_to_blit,
         bitmap_y_target |-> min_row_to_blit - row,
         bitmap_y_source1 |-> bitmap_y_source1,
         bitmap_y_source2 |-> bitmap_y_source2,
         height |-> line_bitmap.height,
         blit |-> /\ 0 <= bitmap_y_source1 /\ bitmap_y_source1 <= line_bitmap.height
                  /\ 0 <= bitmap_y_source2 /\ bitmap_y_source2 <= line_bitmap.height]

\* one line of the drawing loop: st is [bitmap, text_list, error]
DrawLine(st, i, dirty_min, dirty_max, row) ==
    LET item == BitmapGet(st.text_list[i])
        tl == [st.text_list EXCEPT ![i] = item]
    IN  IF item.bitmap = None THEN [st EXCEPT !.text_list = tl]
        ELSE
        LET span == LineSpan(item, dirty_min, dirty_max, row)
        IN  IF span.blit
            THEN IF BlitOutOfRange(span.bitmap_y_target)
                 THEN [st EXCEPT !.text_list = tl, !.error = TRUE]
                 ELSE [bitmap |-> BlitLine(st.bitmap, span.bitmap_y_target,
                                           Val(item.bitmap), span.bitmap_y_source1,
                                           span.bitmap_y_source2),
                       text_list |-> tl, error |-> st.error]
            ELSE [st EXCEPT !.text_list = tl]

\* the drawing loop from line i on: it ends at the first line whose top is
\* past the dirty rows, and at a blit that raises
RECURSIVE DrawLines(_, _, _, _, _)
DrawLines(st, i, dirty_min, dirty_max, row) ==
    IF i > Len(st.text_list) \/ st.error THEN st
    ELSE IF st.text_list[i].top <= dirty_max
         THEN DrawLines(DrawLine(st, i, dirty_min, dirty_max, row), i + 1,
                        dirty_min, dirty_max, row)
         ELSE st

\* the lines the drawing loop reaches: from the start line on, up to the
\* first line whose top is past the dirty rows
Visited(tl, dirty_min, dirty_max) ==
    {i \in StartLine(tl, dirty_min) .. Len(tl) :
        \A j \in StartLine(tl, dirty_min) .. i : tl[j].top <= dirty_max}

\* _scroll_and_draw(new_row) on the canvas bm at row cur: the canvas, the
\* row and the lines afterwards
ScrollAndDraw(bm, cur, maxrow, dirty, tl, new_row) ==
    LET row == Clamp(new_row, maxrow)
        shifted == ShiftCanvas(bm, cur - row)
        st0 == [bitmap |-> shifted, text_list |-> tl, error |-> FALSE]
        st == IF dirty[1] = None \/ dirty[2] = None THEN st0
              ELSE DrawLines(st0, StartLine(tl, Val(dirty[1])),
                             Val(dirty[1]), Val(dirty[2]), row)
    IN  [bitmap |-> st.bitmap, current_row |-> row, text_list |-> st.text_list,
         error |-> st.error]

\* _scroll_and_draw(new_row) when bitmap_label.Label raises as the bitmap of
\* line i is read: the canvas has been shifted, the row set and the lines
\* before line i drawn
ScrollAndDrawRaises(bm, cur, maxrow, dirty, tl, new_row, i) ==
    LET row == Clamp(new_row, maxrow)
        shifted == ShiftCanvas(bm, cur - row)
        st == DrawLines([bitmap |-> shifted, text_list |-> SubSeq(tl, 1, i - 1),
                         error |-> FALSE],
                        StartLine(tl, Val(dirty[1])), Val(dirty[1]), Val(dirty[2]), row)
    IN  [bitmap |-> st.bitmap, current_row |-> row,
         text_list |-> st.text_list \o SubSeq(tl, i, Len(tl)), error |-> st.error]

\* ------------------------------------------------------------ animation

\* The easing functions, monotonic from [0, 1] onto [0, 1]: the value at
\* position elapsed / duration as a fraction num / den
Easings == {"linear", "ease_in"}

Ease(f, t, duration) ==
    IF f = "linear" THEN [num |-> t, den |-> duration]
    ELSE [num |-> t * t, den |-> duration * duration]

\* a mutant of EasedRow: the eased move is rounded up by int(x) + 1
EasedRowUp(f, t, duration, delta, start) ==
    (Ease(f, t, duration).num * delta) \div Ease(f, t, duration).den + 1 + start

\* a mutant of EasedRow: the eased move is taken off start_row
EasedRowReversed(f, t, duration, delta, start) ==
    start - Round(Ease(f, t, duration).num * delta, Ease(f, t, duration).den)

\* new_row of an intermediate draw: round(easing(position) * ypixels) + start_row
EasedRow(f, t, duration, delta, start) ==
    Round(Ease(f, t, duration).num * delta, Ease(f, t, duration).den) + start

\* a mutant of FinalRow: the final draw is one more eased step, at the
\* last position before the end
FinalRowEased(start, delta) == Round((MaxTime - 1) * delta, MaxTime) + start

\* the row of the final draw
FinalRow(start, delta) == start + delta

\* a mutant of ExtendDirty: the band replaces the dirty rows
ExtendDirtyReplace(dirty, delta, cur) ==
    IF delta = 0 THEN dirty
    ELSE << Some(IF delta > 0 THEN cur + Height ELSE cur + delta),
            Some(IF delta > 0 THEN cur + Height + delta ELSE cur) >>

\* a mutant of ExtendDirty: the band of a move down begins at the top row
\* of the window, not below its last row
ExtendDirtyFromTop(dirty, delta, cur) ==
    IF delta = 0 THEN dirty
    ELSE LET add_dirty_row_min == IF delta > 0 THEN cur ELSE cur + delta
             add_dirty_row_max == IF delta > 0 THEN cur + delta ELSE cur
         IN  << IF dirty[1] = None THEN Some(add_dirty_row_min)
                ELSE Some(Min2(Val(dirty[1]), add_dirty_row_min)),
                IF dirty[2] = None THEN Some(add_dirty_row_max)
                ELSE Some(Max2(Val(dirty[2]), add_dirty_row_max)) >>

\* the dirty rows after scroll has added the band of a move of delta rows
\* from row cur
ExtendDirty(dirty, delta, cur) ==
    IF delta = 0 THEN dirty
    ELSE LET add_dirty_row_min == IF delta > 0 THEN cur + Height ELSE cur + delta
             add_dirty_row_max == IF delta > 0 THEN cur + Height + delta ELSE cur
         IN  << IF dirty[1] = None THEN Some(add_dirty_row_min)
                ELSE Some(Min2(Val(dirty[1]), add_dirty_row_min)),
                IF dirty[2] = None THEN Some(add_dirty_row_max)
                ELSE Some(Max2(Val(dirty[2]), add_dirty_row_max)) >>

\* ------------------------------------------------------------ state

VARIABLES
    text,                 \* _text
    font,                 \* _font (the name of the font)
    x_offset,             \* _x_offset
    y_offset,             \* _y_offset
    line_spacing_pixels,  \* _line_spacing_pixels
    text_list,            \* text_list, the _TextData of every line
    max_row,              \* max_row
    current_row,          \* _current_row
    dirty_rows,           \* _dirty_rows
    bitmap,               \* bitmap, the canvas
    auto_refresh,         \* _display.auto_refresh
    pc,                   \* where the call in progress stands
    op,                   \* the public operation in progress (or last returned)
    ypixels,              \* scroll's ypixels
    animation_time,       \* scroll's animation_time
    easing_function,      \* easing_function
    start_row,            \* scroll's start_row
    elapsed,              \* scroll's last elapsed_time
    new_row,              \* the row handed to _scroll_and_draw
    draws,                \* whether this call has made an intermediate draw
    final_draws,          \* final draws of this call
    pre_bitmap,           \* the canvas when the call began
    prev                  \* the scroll call that returned last, kept until a
                          \* bitmap is cleared and while the next call is the
                          \* scroll that undoes it

layout == <<text, font, x_offset, y_offset, line_spacing_pixels, max_row>>

locals == <<op, ypixels, animation_time, easing_function, start_row, pre_bitmap>>

vars == <<text, font, x_offset, y_offset, line_spacing_pixels, text_list, max_row,
          current_row, dirty_rows, bitmap, auto_refresh, pc, op, ypixels,
          animation_time, easing_function, start_row, elapsed, new_row, draws,
          final_draws, pre_bitmap, prev>>

\* the requested moves, from one row to more than a canvas
Deltas == (-(Height + 1)) .. (Height + 1)

\* animation_time: below zero, none, and MaxTime ticks
AnimationTimes == {-1, 0, MaxTime}

\* starting_row: above the text, at its top, inside the first window,
\* below the first window, far below the text
StartingRows == {-1, 0, Height - 1, Height + 2, 6 * Height}

\* the ScrollBoxes constructed: text, font and y_offset (x_offset is 0)
Configs == {[text |-> "A", font |-> TERM, y_offset |-> 0],
            [text |-> "B", font |-> BDF, y_offset |-> 1]}

\* the positions of a call that is in progress
InCall == {"loop", "draw", "final"}

\* ------------------------------------------------------------ construction

\* __init__ up to its call of scroll_to_row(starting_row, 0), and that call
\* up to scroll's loop: the move is starting_row - _current_row = 0 rows
Init ==
    \E c \in Configs, s \in StartingRows :
        LET spacing == LineSpacingPixels(c.font, 1, 1)
            made == MakeTextList(c.text, c.font, c.y_offset, 0, spacing)
        IN  /\ text = c.text
            /\ font = c.font.name
            /\ x_offset = 0
            /\ y_offset = c.y_offset
            /\ line_spacing_pixels = spacing
            /\ text_list = made.text_list
            /\ max_row = made.max_row
            /\ current_row = s
            /\ dirty_rows = ExtendDirty(ResetDirtyRows, 0, s)
            /\ bitmap = ClearedCanvas(NewBitmap)
            /\ auto_refresh \in BOOLEAN
            /\ pc = "loop"
            /\ op = "init"
            /\ ypixels = 0
            /\ animation_time = 0
            /\ easing_function = "linear"
            /\ start_row = s
            /\ elapsed = 0
            /\ new_row = 0
            /\ draws = FALSE
            /\ final_draws = 0
            /\ pre_bitmap = NewBitmap
            /\ prev = None

\* ------------------------------------------------------------ scroll

\* scroll(ypixels, animation_time) up to its loop
ScrollBegin(name, delta, duration, f) ==
    /\ pc = "idle"
    /\ op' = name
    /\ ypixels' = delta
    /\ animation_time' = duration
    /\ easing_function' = f
    /\ start_row' = current_row
    /\ dirty_rows' = ExtendDirty(dirty_rows, delta, current_row)
    /\ elapsed' = 0
    /\ new_row' = 0
    /\ draws' = FALSE
    /\ final_draws' = 0
    /\ pre_bitmap' = bitmap
    /\ prev' = (IF name = "scroll" /\ prev # None /\ delta = -Val(prev).ypixels
                THEN prev ELSE None)
    /\ pc' = "loop"
    /\ UNCHANGED <<layout, text_list, current_row, bitmap, auto_refresh>>

\* the easing function is read only by an animated call
EasingsOf(duration) == IF duration > 0 THEN Easings ELSE {"linear"}

Scroll ==
    \E delta \in Deltas, duration \in AnimationTimes :
        \E f \in EasingsOf(duration) : ScrollBegin("scroll", delta, duration, f)

\* scroll_to_row(row, animation_time): to a row above the text, to the top,
\* to the current row, to the last row, to a row far below the text
ScrollToRow ==
    \E row \in {-1, 0, current_row, max_row, max_row + 2 * Height},
       duration \in AnimationTimes :
        \E f \in EasingsOf(duration) :
            ScrollBegin("scroll_to_row", row - current_row, duration, f)

\* a mutant of LoopAnimate: auto-refresh is not switched off for the draw
LoopAnimateNoSuspend ==
    /\ pc = "loop"
    /\ \E t \in elapsed .. (animation_time - 1) :
          /\ elapsed' = t
          /\ new_row' = EasedRow(easing_function, t, animation_time, ypixels, start_row)
    /\ pc' = "draw"
    /\ UNCHANGED <<layout, locals, text_list, current_row, dirty_rows, bitmap,
                   auto_refresh, draws, final_draws, prev>>

\* the loop reads a clock that has not reached animation_time: the row of
\* the next intermediate draw, with auto-refresh switched off for it
LoopAnimate ==
    /\ pc = "loop"
    /\ \E t \in elapsed .. (animation_time - 1) :
          /\ elapsed' = t
          /\ new_row' = EasedRow(easing_function, t, animation_time, ypixels, start_row)
    /\ auto_refresh' = FALSE
    /\ pc' = "draw"
    /\ UNCHANGED <<layout, locals, text_list, current_row, dirty_rows, bitmap,
                   draws, final_draws, prev>>

\* the intermediate draw, and auto-refresh switched on after it
IntermediateDraw ==
    /\ pc = "draw"
    /\ LET r == ScrollAndDraw(bitmap, current_row, max_row, dirty_rows, text_list, new_row)
       IN  /\ bitmap' = r.bitmap
           /\ current_row' = r.current_row
           /\ text_list' = r.text_list
           /\ auto_refresh' = (IF r.error THEN auto_refresh ELSE TRUE)
           /\ pc' = (IF r.error THEN "raised" ELSE "loop")
    /\ draws' = TRUE
    /\ UNCHANGED <<layout, locals, dirty_rows, elapsed, new_row, final_draws, prev>>

\* a mutant of LoopBreak: the loop ends by returning, without a final draw
LoopBreakReturns ==
    /\ pc = "loop"
    /\ elapsed' = animation_time
    /\ dirty_rows' = NoDirtyRows
    /\ pc' = "done"
    /\ UNCHANGED <<layout, locals, text_list, current_row, bitmap, auto_refresh,
                   new_row, draws, final_draws, prev>>

\* a mutant of LoopBreak: the loop ends only when animation_time is above 0
LoopBreakWhenAnimated ==
    /\ pc = "loop"
    /\ animation_time > 0
    /\ elapsed' = animation_time
    /\ new_row' = FinalRow(start_row, ypixels)
    /\ auto_refresh' = FALSE
    /\ pc' = "final"
    /\ UNCHANGED <<layout, locals, text_list, current_row, dirty_rows, bitmap,
                   draws, final_draws, prev>>

\* the loop reads a clock that has reached animation_time and ends:
\* auto-refresh is switched off for the final draw
LoopBreak ==
    /\ pc = "loop"
    /\ elapsed' = animation_time
    /\ new_row' = FinalRow(start_row, ypixels)
    /\ auto_refresh' = FALSE
    /\ pc' = "final"
    /\ UNCHANGED <<layout, locals, text_list, current_row, dirty_rows, bitmap,
                   draws, final_draws, prev>>

\* the final draw, auto-refresh switched on, the dirty rows cleared, and
\* the return of scroll
FinalDraw ==
    /\ pc = "final"
    /\ LET r == ScrollAndDraw(bitmap, current_row, max_row, dirty_rows, text_list, new_row)
       IN  /\ bitmap' = r.bitmap
           /\ current_row' = r.current_row
           /\ text_list' = r.text_list
           /\ auto_refresh' = (IF r.error THEN auto_refresh ELSE TRUE)
           /\ dirty_rows' = (IF r.error THEN dirty_rows ELSE NoDirtyRows)
           /\ pc' = (IF r.error THEN "raised" ELSE "done")
    /\ final_draws' = final_draws + 1
    /\ UNCHANGED <<layout, locals, elapsed, new_row, draws, prev>>

\* a draw, intermediate or final, in which bitmap_label.Label raises as
\* the bitmap of a line is read: the error leaves scroll
DrawRaises ==
    /\ pc \in {"draw", "final"}
    /\ dirty_rows[1] # None /\ dirty_rows[2] # None
    /\ \E i \in Visited(text_list, Val(dirty_rows[1]), Val(dirty_rows[2])) :
          /\ text_list[i].bitmap = None
          /\ LET r == ScrollAndDrawRaises(bitmap, current_row, max_row, dirty_rows,
                                          text_list, new_row, i)
             IN  /\ ~r.error
                 /\ bitmap' = r.bitmap
                 /\ current_row' = r.current_row
                 /\ text_list' = r.text_list
    /\ pc' = "raised"
    /\ UNCHANGED <<layout, locals, dirty_rows, auto_refresh, elapsed, new_row, draws,
                   final_draws, prev>>

\* the caller goes on after the call has returned: the frame of the call
\* is dropped
Return ==
    /\ pc = "done"
    /\ pc' = "idle"
    /\ prev' = (IF op = "scroll"
                THEN Some([ypixels |-> ypixels, start_row |-> start_row,
                           bitmap |-> pre_bitmap])
                ELSE None)
    /\ op' = "none"
    /\ ypixels' = 0
    /\ animation_time' = 0
    /\ easing_function' = "linear"
    /\ start_row' = 0
    /\ elapsed' = 0
    /\ new_row' = 0
    /\ draws' = FALSE
    /\ final_draws' = 0
    /\ pre_bitmap' = NewBitmap
    /\ UNCHANGED <<layout, text_list, current_row, dirty_rows, bitmap, auto_refresh>>

\* ------------------------------------------------------------ setters

\* _make_text_list followed by scroll_to_row(0, 0) up to scroll's loop
Rebuild(name, t, f) ==
    LET made == MakeTextList(t, FontOf(f), y_offset, x_offset, line_spacing_pixels)
    IN  /\ pc = "idle"
        /\ text' = t
        /\ font' = f
        /\ text_list' = made.text_list
        /\ max_row' = made.max_row
        /\ bitmap' = ClearedCanvas(bitmap)
        /\ op' = name
        /\ ypixels' = 0 - current_row
        /\ animation_time' = 0
        /\ start_row' = current_row
        /\ dirty_rows' = ExtendDirty(ResetDirtyRows, 0 - current_row, current_row)
        /\ elapsed' = 0
        /\ new_row' = 0
        /\ draws' = FALSE
        /\ final_draws' = 0
        /\ pre_bitmap' = bitmap
        /\ prev' = None
        /\ pc' = "loop"
        /\ UNCHANGED <<x_offset, y_offset, line_spacing_pixels, current_row,
                       auto_refresh, easing_function>>

\* the text setter
SetText == \E t \in TextNames : Rebuild("text", t, font)

\* the font setter
SetFont == \E f \in Fonts : Rebuild("font", text, f.name)

\* clear_bitmap of one line, by the owner of the ScrollBox
ClearBitmap ==
    /\ pc = "idle"
    /\ \E i \in 1 .. Len(text_list) :
          /\ text_list[i].bitmap # None \/ text_list[i].bitmap_anchor_offset # None
          /\ text_list' = [text_list EXCEPT ![i] = ClearBitmapOf(text_list[i])]
    /\ prev' = None
    /\ UNCHANGED <<layout, locals, current_row, dirty_rows, bitmap, auto_refresh, pc,
                   elapsed, new_row, draws, final_draws>>

Next ==
    \/ ClearBitmap
    \/ Scroll
    \/ ScrollToRow
    \/ LoopAnimate
    \/ IntermediateDraw
    \/ LoopBreak
    \/ FinalDraw
    \/ DrawRaises
    \/ Return
    \/ SetText
    \/ SetFont

Spec == Init /\ [][Next]_vars

\* a draw is in progress
Drawing == pc \in {"draw", "final"}

\* scroll runs without waiting on anything, so a draw that has been begun
\* ends, by one of the steps IntermediateDraw, FinalDraw and DrawRaises, the
\* only ones there are from a draw in progress; and the clock read by the
\* loop keeps advancing, so a loop that reads it again and again reads a
\* time past animation_time at last
LiveSpec ==
    /\ Spec
    /\ []<>(~Drawing)
    /\ SF_vars(LoopBreak)

\* ------------------------------------------------------------ reference

\* a call has returned, and its frame is still there to look at
Returned == pc = "done"

ScrollCall == op \in {"scroll", "scroll_to_row"}

\* there are no dirty rows
DirtyEmpty == dirty_rows[1] = None /\ dirty_rows[2] = None

\* v limited to lo .. hi
Clamped(v, lo, hi) == IF v < lo THEN lo ELSE IF v > hi THEN hi ELSE v

\* the virtual rows line i renders to: from RenderTop on, RenderHeight rows
RenderHeight(item) ==
    LET l == Label(item.text, FontOf(item.font))
    IN  IF l.bitmap = None THEN 0 ELSE Val(l.bitmap).height

RenderTop(item) == item.anchor + Label(item.text, FontOf(item.font)).bounding_box_y

Covers(item, v) == RenderTop(item) <= v /\ v < RenderTop(item) + RenderHeight(item)

\* what virtual row v of the layout shows: the row of the last line drawn
\* over it, the background where there is none
Shows(tl, v) ==
    IF \E i \in 1 .. Len(tl) : Covers(tl[i], v)
    THEN LET i == CHOOSE i \in 1 .. Len(tl) :
                    /\ Covers(tl[i], v)
                    /\ \A j \in (i + 1) .. Len(tl) : ~Covers(tl[j], v)
         IN  <<tl[i].text, tl[i].font, v - RenderTop(tl[i])>>
    ELSE Background

\* the full repaint of the window that begins at virtual row `row`
Repaint(tl, row) == [y \in Rows |-> Shows(tl, row + y)]

\* the canvas shows the window at current_row
Consistent == bitmap = Repaint(text_list, current_row)

\* the canvas showed the window at start_row when the call began
WasConsistent == pre_bitmap = Repaint(text_list, start_row)

\* ------------------------------------------------------------ claims

\* C1: a scroll or scroll_to_row call that began with the canvas showing the
\* window at its row (and no dirty rows) returns with the canvas showing the
\* window at the new current_row, whatever the move, the easing and the
\* intermediate draws: shifting and patching equals a full repaint.
C1_ScrollKeepsCanvasConsistent ==
    (Returned /\ ScrollCall /\ WasConsistent) => Consistent

\* C1 witness: an animated move to another row, from a consistent canvas
\* that shows text, has returned
C1_Witness ==
    /\ Returned /\ op = "scroll" /\ WasConsistent
    /\ draws /\ current_row # start_row
    /\ pre_bitmap # NewBitmap /\ bitmap # NewBitmap

\* C2: current_row is within 0 .. max_row whenever no call is in progress:
\* after construction and after every scroll, scroll_to_row, text set and
\* font set.
C2_CurrentRowInRange ==
    pc \in {"idle", "done"} => (0 <= current_row /\ current_row <= max_row)

\* C2 witness: a scroll far past the last row has returned at max_row
C2_Witness ==
    /\ Returned /\ op = "scroll"
    /\ start_row + ypixels > max_row /\ current_row = max_row

\* C3: a returned scroll(d) has current_row = clamp(start_row + d, 0, max_row),
\* and a returned scroll_to_row(row), whose move is row - start_row, has
\* current_row = clamp(row, 0, max_row), whatever intermediate draws ran.
C3_ExactLanding ==
    (Returned /\ ScrollCall) => current_row = Clamped(start_row + ypixels, 0, max_row)

\* C3 witness: an animated scroll_to_row to a row below max_row has returned
C3_Witness ==
    /\ Returned /\ op = "scroll_to_row" /\ draws
    /\ start_row + ypixels > max_row /\ start_row < max_row

\* the band scroll adds for a move of delta rows from row cur
BandMin(delta, cur) == IF delta > 0 THEN cur + Height ELSE cur + delta

BandMax(delta, cur) == IF delta > 0 THEN cur + Height + delta ELSE cur

\* the scroll that returned before this one, which this one undoes
Undone == Val(prev)

\* C4 as stated: scroll(+d) then scroll(-d), for any d, ends at the row and
\* with the canvas of before the first scroll.
C4_RoundTripAnyMove ==
    (Returned /\ op = "scroll" /\ prev # None) =>
        (current_row = Undone.start_row /\ bitmap = Undone.bitmap)

\* C4 amended: scroll(+d) then scroll(-d), the first of which was not cut
\* short at row 0 or max_row, ends at the row of before the first scroll;
\* and with the canvas of before the first scroll when that canvas showed
\* the window at its row.
C4_RoundTripInRange ==
    (/\ Returned /\ op = "scroll" /\ prev # None
     /\ 0 <= Undone.start_row + Undone.ypixels
     /\ Undone.start_row + Undone.ypixels <= max_row) =>
        /\ current_row = Undone.start_row
        /\ (Undone.bitmap = Repaint(text_list, Undone.start_row) => bitmap = Undone.bitmap)

\* C4 witness: an animated scroll back over a move that stayed in range has
\* returned, from and to a canvas that shows text
C4_Witness ==
    /\ Returned /\ op = "scroll" /\ prev # None /\ draws
    /\ Undone.ypixels > 0
    /\ Undone.start_row + Undone.ypixels <= max_row
    /\ Undone.bitmap = Repaint(text_list, Undone.start_row)
    /\ Undone.bitmap # NewBitmap
    /\ bitmap = Undone.bitmap

\* C5: scroll(0, d) and scroll_to_row(current_row, d) change neither the
\* canvas nor current_row at any of their draws, and return with no dirty
\* rows.
C5_ZeroMoveIsNoOp ==
    (ScrollCall /\ ypixels = 0 /\ pc \in InCall \cup {"done"}) =>
        /\ bitmap = pre_bitmap
        /\ current_row = start_row
        /\ (Returned => DirtyEmpty)

\* C5 witness: an animated scroll_to_row(current_row), on a canvas that
\* shows text, has returned after intermediate draws
C5_Witness ==
    /\ Returned /\ op = "scroll_to_row" /\ ypixels = 0
    /\ draws /\ animation_time > 0 /\ bitmap # NewBitmap

\* C6: construction with starting_row S returns with current_row = S
\* clamped to 0 .. max_row, no dirty rows and the canvas showing the whole
\* window at that row.
C6_ConstructionShowsWindow ==
    (Returned /\ op = "init") =>
        /\ current_row = Clamped(start_row, 0, max_row)
        /\ DirtyEmpty
        /\ Consistent

\* the lines are the wrap of text in font, laid out from y_offset
LinesOfText ==
    LET lines == wrap_text_to_pixels(text, Width - x_offset, FontOf(font))
    IN  /\ Len(text_list) = Len(lines)
        /\ \A i \in 1 .. Len(lines) :
              text_list[i].text = lines[i] /\ text_list[i].font = font

\* every cached bitmap is the rendering of its own line
CacheIsOfLayout ==
    \A i \in 1 .. Len(text_list) :
        text_list[i].bitmap # None =>
            /\ Val(text_list[i].bitmap).text = text_list[i].text
            /\ Val(text_list[i].bitmap).font = text_list[i].font
            /\ Val(text_list[i].bitmap).text[1] = text

\* C7: the text setter and the font setter return with the lines of the new
\* text and font, no bitmap of the old layout cached, current_row = 0, no
\* dirty rows and the canvas showing rows 0 .. Height - 1 of the new layout.
C7_SetterRebuildsAndResets ==
    (Returned /\ op \in {"text", "font"}) =>
        /\ LinesOfText
        /\ CacheIsOfLayout
        /\ current_row = 0
        /\ DirtyEmpty
        /\ Consistent
        /\ bitmap = Repaint(text_list, 0)

\* C7 witness: a text set from a row below the canvas height and below the
\* new max_row has returned with text on the canvas
C7_Witness ==
    /\ Returned /\ op = "text"
    /\ start_row > Height /\ start_row > max_row
    /\ bitmap # NewBitmap /\ pre_bitmap # NewBitmap

\* C8: a call in progress has made no final draw, a returned call exactly
\* one, at start_row + ypixels and after every intermediate draw; a call
\* of duration 0 makes no intermediate draw.
C8_OneFinalPass ==
    /\ pc \in InCall => final_draws = 0
    /\ pc = "final" => new_row = start_row + ypixels
    /\ Returned => final_draws = 1
    /\ (pc \in InCall \cup {"done"} /\ animation_time = 0) => ~draws

\* C8 witness: scroll_to_row(0) of duration 0 has returned at row 0 after
\* its one pass
C8_Witness ==
    /\ Returned /\ op = "scroll_to_row" /\ animation_time = 0
    /\ start_row + ypixels = 0 /\ start_row > 0
    /\ current_row = 0 /\ final_draws = 1 /\ ~draws

\* C9: there are no dirty rows whenever a call has returned, and until the
\* final draw of a move of d # 0 rows the dirty rows hold the band of the
\* move.
C9_DirtyClearedAtReturn ==
    /\ pc \in {"idle", "done"} => DirtyEmpty
    /\ (pc \in InCall /\ ypixels # 0) =>
          /\ dirty_rows[1] # None /\ dirty_rows[2] # None
          /\ Val(dirty_rows[1]) <= BandMin(ypixels, start_row)
          /\ Val(dirty_rows[2]) >= BandMax(ypixels, start_row)

\* C9 witness: an animated move has returned after intermediate draws
C9_Witness == Returned /\ op = "scroll" /\ ypixels # 0 /\ draws /\ DirtyEmpty

\* C10 as stated: a scroll down that follows a scroll up holds the union of
\* the bands of both calls in its dirty rows.
C10_BandsOfTwoCallsUnion ==
    (pc \in InCall /\ op = "scroll" /\ prev # None /\ Undone.ypixels > 0 /\ ypixels < 0) =>
        dirty_rows = << Some(Min2(BandMin(Undone.ypixels, Undone.start_row),
                                  BandMin(ypixels, start_row))),
                        Some(Max2(BandMax(Undone.ypixels, Undone.start_row),
                                  BandMax(ypixels, start_row))) >>

\* C10 amended: scroll adds its band by union to the dirty rows that are
\* pending when it is called.  Those are the whole canvas, rows 0 .. Height,
\* after a layout rebuild, and none otherwise: every call clears the dirty
\* rows before it returns, so a scroll or scroll_to_row call holds exactly
\* its own band, never the band of an earlier call.
C10_BandJoinsPendingRows ==
    (pc \in InCall /\ ypixels # 0) =>
        IF ScrollCall
        THEN dirty_rows = << Some(BandMin(ypixels, start_row)),
                             Some(BandMax(ypixels, start_row)) >>
        ELSE dirty_rows = << Some(Min2(0, BandMin(ypixels, start_row))),
                             Some(Max2(Height, BandMax(ypixels, start_row))) >>

\* C10 witness: a text set from a row inside the first window is in
\* progress: the band 0 .. start_row is within the reset rows 0 .. Height
C10_Witness ==
    /\ pc = "loop" /\ op = "text"
    /\ 0 < start_row /\ start_row < Height
    /\ dirty_rows = << Some(0), Some(Height) >>

\* the row a call is to end at
Target == Clamped(start_row + ypixels, 0, max_row)

C12_CanvasNeverChangesWhileRefreshing ==
    [][/\ (Drawing => ~auto_refresh)
       /\ ((Drawing /\ pc' \in {"loop", "done"}) => auto_refresh')
       /\ (bitmap' # bitmap => ~auto_refresh)]_vars

\* C12 amended: every draw, intermediate and final, is made with
\* auto-refresh switched off, and auto-refresh is on after it and when scroll
\* returns; so within a call of scroll the canvas never changes while
\* auto-refresh is on.  (The canvas is also cleared by a layout rebuild,
\* before scroll is called and with auto-refresh as the caller left it.)
C12_DrawsRunSuspended ==
    [][/\ (Drawing => ~auto_refresh)
       /\ ((Drawing /\ pc' \in {"loop", "done"}) => auto_refresh')
       /\ ((pc \in InCall /\ bitmap' # bitmap) => ~auto_refresh)
       /\ (pc' = "done" => (Drawing /\ auto_refresh'))]_vars

\* C12 witness: an intermediate draw has changed the canvas and auto-refresh
\* is on again
C12_Witness ==
    /\ pc = "loop" /\ op = "scroll" /\ draws
    /\ bitmap # pre_bitmap /\ auto_refresh

\* C13: when a draw fails and the error leaves scroll, auto-refresh has
\* been switched on again.
C13_RefreshResumedOnError == pc = "raised" => auto_refresh

\* C14: a call with an animation time below 0 is refused: it makes no draw
\* and does not return with a scroll performed.
C14_NegativeDurationRefused ==
    animation_time < 0 => pc \notin {"draw", "final", "done"}

\* the lines wrap_text_to_pixels makes of the text
Wrapped == wrap_text_to_pixels(text, Width - x_offset, FontOf(font))

\* C15: the layout has one line for every wrapped line, a line without
\* glyphs included; line i (from 0) has top = y_offset + i * stride, so the
\* lines are in ascending order of top; and max_row is the row after the
\* last line, y_offset + n * stride.
C15_LayoutGeometry ==
    /\ Len(text_list) = Len(Wrapped)
    /\ \A i \in 1 .. Len(text_list) :
          /\ text_list[i].text = Wrapped[i]
          /\ text_list[i].top = y_offset + (i - 1) * line_spacing_pixels
    /\ \A i \in 1 .. (Len(text_list) - 1) : text_list[i].top <= text_list[i + 1].top
    /\ max_row = y_offset + Len(Wrapped) * line_spacing_pixels
    /\ Len(text_list) > 0 =>
          max_row = text_list[Len(text_list)].top + line_spacing_pixels

\* C15 witness: a layout with a line without glyphs between two lines with
\* glyphs, built by the text setter from below the first window
C15_Witness ==
    /\ Returned /\ op = "text" /\ y_offset > 0
    /\ \E i \in 2 .. (Len(text_list) - 1) :
          /\ text_list[i].text[4] = 0
          /\ text_list[i - 1].text[4] > 0
          /\ text_list[i + 1].text[4] > 0

\* C16: in every layout built, at construction and by the text and font
\* setters, consecutive line tops are round(line_height * line_spacing)
\* apart, line_height being that of the font the layout was built with
\* (line_spacing is 1 here), and max_row is as many strides below y_offset
\* as there are lines.
C16_StrideOfLayoutFont ==
    pc \in {"idle", "done"} =>
        /\ \A i \in 1 .. (Len(text_list) - 1) :
              text_list[i + 1].top - text_list[i].top
                  = LineSpacingPixels(FontOf(font), 1, 1)
        /\ \A i \in 1 .. Len(text_list) : text_list[i].font = font
        /\ max_row = y_offset + Len(text_list) * LineSpacingPixels(FontOf(font), 1, 1)

\* the spans of the draw that is about to be made: one for every line the
\* drawing loop reaches and whose bitmap is not None
SpansOfDraw ==
    IF dirty_rows[1] = None \/ dirty_rows[2] = None THEN {}
    ELSE {LineSpan(BitmapGet(text_list[i]), Val(dirty_rows[1]), Val(dirty_rows[2]),
                   Clamp(new_row, max_row)) :
            i \in {j \in Visited(text_list, Val(dirty_rows[1]), Val(dirty_rows[2])) :
                      BitmapGet(text_list[j]).bitmap # None}}

\* C17: every blit of a line that a draw issues has source rows
\* 0 <= src_start <= src_end <= bitmap height and a target row within
\* 0 .. Height; and no blit is issued for a line whose rows to copy are
\* none or inverted (start > end).
C17_BlitsWellFormed ==
    Drawing =>
        \A span \in SpansOfDraw :
            /\ span.blit =>
                  /\ 0 <= span.bitmap_y_source1
                  /\ span.bitmap_y_source1 <= span.bitmap_y_source2
                  /\ span.bitmap_y_source2 <= span.height
                  /\ 0 <= span.bitmap_y_target
                  /\ span.bitmap_y_target <= Height
            /\ span.min_row_to_blit > span.max_row_to_blit => ~span.blit

\* the rows the draw that is about to be made moves the canvas by
ShiftOfDraw == current_row - Clamp(new_row, max_row)

\* C18: the shift step of a draw that moves the view by delta rows, before
\* any line is repainted.  For |delta| >= Height, |delta| = Height included,
\* every row of the canvas is background.  For 0 < |delta| < Height the
\* rows that stay in view keep their pixels, displaced by delta, and the
\* |delta| rows the move exposes are background.
C18_ShiftStep ==
    Drawing =>
        LET delta == ShiftOfDraw
            shifted == ShiftCanvas(bitmap, delta)
        IN  /\ Abs(delta) >= Height => \A y \in Rows : shifted[y] = Background
            /\ (0 < delta /\ delta < Height) =>
                  \A y \in Rows :
                      shifted[y] = IF y < delta THEN Background ELSE bitmap[y - delta]
            /\ (-Height < delta /\ delta < 0) =>
                  \A y \in Rows :
                      shifted[y] = IF y >= Height + delta THEN Background
                                   ELSE bitmap[y - delta]

\* C18 witness: a draw is about to move a canvas that shows text on every
\* row by exactly Height rows
C18_Witness ==
    /\ Drawing /\ Abs(ShiftOfDraw) = Height
    /\ \A y \in Rows : bitmap[y] # Background

\* the band of a move of d rows from row r joined to a region: the region
\* itself for d = 0, the band for an empty region, and otherwise the lesser
\* of the two lower bounds and the greater of the two upper bounds
Joined(region, d, r) ==
    IF d = 0 THEN region
    ELSE IF region = << None, None >>
         THEN << Some(IF d > 0 THEN r + Height ELSE r + d),
                 Some(IF d > 0 THEN r + Height + d ELSE r) >>
    ELSE << Some(Min2(Val(region[1]), IF d > 0 THEN r + Height ELSE r + d)),
            Some(Max2(Val(region[2]), IF d > 0 THEN r + Height + d ELSE r)) >>

\* C19: a call of scroll(d) from row R begins by joining the band of the
\* move, R + Height .. R + Height + d for d > 0 and R + d .. R for d < 0,
\* taken from the d asked for and the row at the call, to the dirty rows
\* there are: to none in a call of scroll or scroll_to_row, to the rows
\* 0 .. Height of the rebuild in the scroll_to_row(0) of a setter.
C19_BandJoinedAtStart ==
    [][(pc = "idle" /\ pc' = "loop") =>
          /\ start_row' = current_row
          /\ dirty_rows' =
                Joined(IF op' \in {"text", "font"} THEN << Some(0), Some(Height) >>
                       ELSE dirty_rows,
                       ypixels', current_row)]_vars

\* C19 witness: a scroll down by more rows than are left below the window
\* has begun, and the dirty rows are the whole band of the rows asked for
C19_Witness ==
    /\ pc = "loop" /\ op = "scroll" /\ ~draws
    /\ ypixels > 0 /\ start_row + ypixels > max_row
    /\ start_row > 0 /\ start_row < max_row
    /\ dirty_rows = << Some(start_row + Height), Some(start_row + Height + ypixels) >>

\* C20: in every state, between the draws of an animation and between a
\* layout rebuild and the draw that follows it included, the dirty rows are
\* either none, with both bounds absent, or both bounds set with
\* min <= max; never one bound alone.
C20_DirtyWellFormed ==
    \/ dirty_rows[1] = None /\ dirty_rows[2] = None
    \/ /\ dirty_rows[1] # None /\ dirty_rows[2] # None
       /\ Val(dirty_rows[1]) <= Val(dirty_rows[2])

\* C20 witness: between two draws of an animated scroll up from the top of
\* the text the dirty rows are set, from a row above the text on
C20_Witness ==
    /\ pc = "draw" /\ op = "scroll" /\ draws /\ ypixels < 0
    /\ dirty_rows[1] # None /\ dirty_rows[2] # None
    /\ Val(dirty_rows[1]) < 0 /\ Val(dirty_rows[1]) < Val(dirty_rows[2])

\* C21: the rows drawn by one call, the intermediate ones and then the final
\* one, never step back: every draw of a call of d rows leaves current_row
\* where it was or further in the direction of d, between start_row and
\* the target row of the call, and within 0 .. max_row.
C21_NoBacktracking ==
    [][Drawing =>
          /\ ypixels > 0 => current_row' >= current_row
          /\ ypixels < 0 => current_row' <= current_row
          /\ ypixels = 0 => current_row' = Target
          /\ Min2(start_row, Target) <= current_row'
          /\ current_row' <= Max2(start_row, Target)
          /\ 0 <= current_row' /\ current_row' <= max_row]_vars

\* C21 witness: an eased scroll up stands, after an intermediate draw, at a
\* row between the row it began at and its target row
C21_Witness ==
    /\ pc = "loop" /\ op = "scroll" /\ draws /\ easing_function = "ease_in"
    /\ ypixels < 0 /\ Target < current_row /\ current_row < start_row

\* the lines with the bitmaps of the lines in S cleared
ClearedLines(tl, S) ==
    [i \in 1 .. Len(tl) |-> IF i \in S THEN ClearBitmapOf(tl[i]) ELSE tl[i]]

\* the lines the draw that is about to be made reads the bitmap of
LinesOfDraw ==
    IF dirty_rows[1] = None \/ dirty_rows[2] = None THEN {}
    ELSE Visited(text_list, Val(dirty_rows[1]), Val(dirty_rows[2]))

\* a line has been rasterized since it was made or last cleared: the read
\* that rasterizes sets the anchor offset, and only clear_bitmap unsets it
RasterizedSinceClear(item) == item.bitmap_anchor_offset # None

\* a line is rasterized at most once between two clears: no draw rasterizes
\* a line, with glyphs or without, that has been rasterized since it was
\* made or last cleared
C22_RasterizedOnce ==
    Drawing =>
        \A i \in LinesOfDraw :
            Rasterizes(text_list[i]) => ~RasterizedSinceClear(text_list[i])

\* clear_bitmap leaves neither bitmap nor anchor offset, the next read
\* rasterizes again and restores both, and the draw that is about to be
\* made gives the same canvas and row after the bitmaps of any set of lines
\* have been cleared
C22_ClearIsTransparent ==
    /\ \A i \in 1 .. Len(text_list) :
          LET cleared == ClearBitmapOf(text_list[i])
              read == BitmapGet(cleared)
              label == Label(text_list[i].text, FontOf(text_list[i].font))
          IN  /\ cleared.bitmap = None /\ cleared.bitmap_anchor_offset = None
              /\ Rasterizes(cleared)
              /\ read.bitmap = label.bitmap
              /\ read.bitmap_anchor_offset = Some(label.bounding_box_y)
    /\ Drawing =>
          LET draw == ScrollAndDraw(bitmap, current_row, max_row, dirty_rows,
                                    text_list, new_row)
          IN  \A S \in SUBSET (1 .. Len(text_list)) :
                  LET other == ScrollAndDraw(bitmap, current_row, max_row, dirty_rows,
                                             ClearedLines(text_list, S), new_row)
                  IN  /\ other.bitmap = draw.bitmap
                      /\ other.current_row = draw.current_row
                      /\ other.error = draw.error

\* C22: between two clear_bitmap calls a line, with glyphs or without, is
\* rasterized at most once however many draws read it; after clear_bitmap
\* bitmap and anchor offset are both absent, the next read restores both,
\* and a draw after clearing any set of lines gives the same canvas as
\* the draw without the clears.
C22_CacheMemoizesAndRegenerates == C22_RasterizedOnce /\ C22_ClearIsTransparent

====
